---- MODULE Spec2Model ----
(***************************************************************************)
(* The live-progress bot of src/bot.py: the /progress and /stop command    *)
(* handlers, the per-chat chat_data dictionary and the background tasks    *)
(* running update_message_continuously, on asyncio's single-threaded      *)
(* cooperative scheduler.  One action is one run of a coroutine between    *)
(* two suspension points (an await of a network call or of a sleep).       *)
(***************************************************************************)
EXTENDS Integers, Sequences, FiniteSets, TLC

\* ---------------------------------------------------------------- bounds
MaxStarts == 2     \* initial messages sent (and so tasks created) in a run
MaxTicks == 2      \* clock ticks that pass while one message is generated
TicksPerSecond == 2   \* resolution of the clock: ticks in a second
PctGrain == 8      \* percentages tried are the multiples of 1/PctGrain

\* the conversations that send commands
Chats == {1, 2}

\* ------------------------------------------------------------- constants
EditInterval == 5        \* asyncio.sleep(5) after a successful edit
FloodBackoff == 30       \* asyncio.sleep(30) after a flood-control error
ErrorBackoff == 10       \* asyncio.sleep(10) after any other error
BarLength == 20          \* get_progress_bar(percentage, bar_length=20)
QuoteCount == 30         \* len(QUOTES)

VARIABLES
    chat_data,     \* chat -> dict (context.chat_data of that chat)
    tasks,         \* the unfinished tasks made by asyncio.create_task
    update,        \* the command being handled (updates are handled one at a time)
    message_seq,   \* the last message id the transport gave to an initial message
    history,       \* chat -> "none" | "started" | "stopped"   (history variable)
    clock,         \* the instant datetime.now(IST) returns
    render         \* the locals of the call of the renderer that is under way

vars == <<chat_data, tasks, update, message_seq, history, clock, render>>

\* the state of the handlers and the tasks, and the state of the renderer
bvars == <<chat_data, tasks, update, message_seq, history>>

rvars == <<clock, render>>

\* ------------------------------------------------------------ dictionary
EmptyDict == [k \in {} |-> FALSE]

\* dict.get(key, default)
Get(d, key, default) == IF key \in DOMAIN d THEN d[key] ELSE default

\* dict[key] = value
Put(d, key, value) == [k \in DOMAIN d \cup {key} |-> IF k = key THEN value ELSE d[k]]

\* ------------------------------------------------- errors of an edit call
\* An error message is modelled by the set of the substrings the except
\* block looks for that it contains ("x" in error_msg is x \in e).
Markers == {"message to edit not found", "Message can't be edited",
            "Flood control", "429", "Too Many Requests"}

\* the messages tried: one with none of the substrings, one with each, and
\* one with a flood substring and a terminal one
ErrorMsgs ==
    {{}, {"message to edit not found"}, {"Flood control", "Message can't be edited"},
     {"Flood control"}, {"429"}, {"Too Many Requests"}}

IsTerminal(e) ==
    "message to edit not found" \in e \/ "Message can't be edited" \in e

IsFlood(e) ==
    "Flood control" \in e \/ "429" \in e \/ "Too Many Requests" \in e

\* The except block with a slip: the terminal branch breaks out of the loop
\* and leaves the running flag set.
ExceptHandlerNoClear(e) ==
    IF IsTerminal(e) THEN [clear |-> FALSE, break |-> TRUE, sleep |-> 0]
    ELSE IF IsFlood(e) THEN [clear |-> FALSE, break |-> FALSE, sleep |-> FloodBackoff]
    ELSE [clear |-> FALSE, break |-> FALSE, sleep |-> ErrorBackoff]

\* The except block with a slip: the flood branch falls through to the
\* 10 second sleep of the else branch.
ExceptHandlerShortFlood(e) ==
    IF IsTerminal(e) THEN [clear |-> TRUE, break |-> TRUE, sleep |-> 0]
    ELSE [clear |-> FALSE, break |-> FALSE, sleep |-> ErrorBackoff]

\* The except block with a slip: an unclassified error breaks out of the loop.
ExceptHandlerBreakOnAny(e) ==
    IF IsTerminal(e) THEN [clear |-> TRUE, break |-> TRUE, sleep |-> 0]
    ELSE IF IsFlood(e) THEN [clear |-> FALSE, break |-> FALSE, sleep |-> FloodBackoff]
    ELSE [clear |-> FALSE, break |-> TRUE, sleep |-> 0]

\* The except block as a function of the error message: whether it clears
\* the running flag, whether it breaks out of the loop, how long it sleeps.
ExceptHandler(e) ==
    IF IsTerminal(e) THEN [clear |-> TRUE, break |-> TRUE, sleep |-> 0]
    ELSE IF IsFlood(e) THEN [clear |-> FALSE, break |-> FALSE, sleep |-> FloodBackoff]
    ELSE [clear |-> FALSE, break |-> FALSE, sleep |-> ErrorBackoff]

\* History: the class of an error message, read off the message itself.
Kind(e) ==
    IF "message to edit not found" \in e \/ "Message can't be edited" \in e
    THEN "terminal"
    ELSE IF "Flood control" \in e \/ "429" \in e \/ "Too Many Requests" \in e
    THEN "flood" ELSE "other"

\* ------------------------------------------------------------- the clock
\* An instant of IST, a fixed offset with no daylight saving: a date and the
\* ticks since midnight.
DayTicks == 24 * 60 * 60 * TicksPerSecond

At(y, m, d, tod) == [year |-> y, month |-> m, day |-> d, tod |-> tod]

\* the time of day h:mi:s and f ticks
Tod(h, mi, s, f) == ((h * 60 + mi) * 60 + s) * TicksPerSecond + f

Hour(i) == i.tod \div (60 * 60 * TicksPerSecond)

Minute(i) == (i.tod \div (60 * TicksPerSecond)) % 60

Second(i) == (i.tod \div TicksPerSecond) % 60

IsLeap(y) == (y % 4 = 0 /\ y % 100 # 0) \/ y % 400 = 0

DaysInMonth(y, m) ==
    IF m = 2 THEN (IF IsLeap(y) THEN 29 ELSE 28)
    ELSE IF m \in {4, 6, 9, 11} THEN 30 ELSE 31

\* the days of year y before its month m
DaysBeforeMonth(y, m) ==
    <<0, 31, 59, 90, 120, 151, 181, 212, 243, 273, 304, 334>>[m]
    + (IF m > 2 /\ IsLeap(y) THEN 1 ELSE 0)

\* the days before 1 January of year y
DaysBeforeYear(y) ==
    365 * (y - 1) + (y - 1) \div 4 - (y - 1) \div 100 + (y - 1) \div 400

\* date.toordinal()
Ordinal(i) == DaysBeforeYear(i.year) + DaysBeforeMonth(i.year, i.month) + i.day

\* a - b of two datetimes: a timedelta, in ticks
Minus(a, b) == (Ordinal(a) - Ordinal(b)) * DayTicks + (a.tod - b.tod)

\* timedelta.days: the whole days of a timedelta, rounded down
TimedeltaDays(td) == td \div DayTicks

\* the instant one tick after i
Advance(i) ==
    IF i.tod + 1 < DayTicks THEN [i EXCEPT !.tod = i.tod + 1]
    ELSE IF i.day < DaysInMonth(i.year, i.month) THEN At(i.year, i.month, i.day + 1, 0)
    ELSE IF i.month < 12 THEN At(i.year, i.month + 1, 1, 0)
    ELSE At(i.year + 1, 1, 1, 0)

\* get_ist_now()
get_ist_now == clock

\* ------------------------------------------------------------ percentages
\* A percentage is kept exact, as the fraction num/den.
\* (a / b) * 100; a whole number of hundreds in b is divided out
Percent(a, b) ==
    IF b % 100 = 0 THEN [num |-> a, den |-> b \div 100]
    ELSE [num |-> a * 100, den |-> b]

\* min(percentage, 100)
MinHundred(p) == IF p.num > 100 * p.den THEN [num |-> 100, den |-> 1] ELSE p

\* p < q
Less(p, q) == p.num * q.den < q.num * p.den

\* get_year_progress(), with the instant its call of get_ist_now() returned
get_year_progress(now) ==
    LET year_start == At(now.year, 1, 1, 0)
        year_end == At(now.year + 1, 1, 1, 0)
        total == Minus(year_end, year_start)
        elapsed == Minus(now, year_start)
    IN MinHundred(Percent(elapsed, total))

\* get_day_progress(), likewise; day_end - day_start is timedelta(days=1)
get_day_progress(now) ==
    LET day_start == At(now.year, now.month, now.day, 0)
        total == 1 * DayTicks
        elapsed == Minus(now, day_start)
    IN MinHundred(Percent(elapsed, total))

\* get_second_progress() with a slip: the seconds are divided by 60
get_second_progress_by60(now) ==
    MinHundred(Percent(Second(now), 60))

\* get_second_progress(), likewise
get_second_progress(now) ==
    LET seconds == Second(now)
    IN MinHundred(Percent(seconds, 59))

\* get_month_info() with a slip: the comparison is strict
get_month_info_strict(now) ==
    LET next_month == IF now.month = 12 THEN At(now.year + 1, 1, 1, 0)
                      ELSE At(now.year, now.month + 1, 1, 0)
        days_left == TimedeltaDays(Minus(next_month, now))
    IN [month_name |-> now.month, days_left |-> days_left,
        months_left |-> IF days_left < 0 THEN 12 - now.month - 1 ELSE 12 - now.month]

\* get_month_info(), likewise; the month's name is stood for by its number
get_month_info(now) ==
    LET next_month == IF now.month = 12 THEN At(now.year + 1, 1, 1, 0)
                      ELSE At(now.year, now.month + 1, 1, 0)
        days_left == TimedeltaDays(Minus(next_month, now))
        months_left == 12 - now.month
    IN [month_name |-> now.month, days_left |-> days_left,
        months_left |-> IF days_left <= 0 THEN months_left - 1 ELSE months_left]

\* get_random_quote(), likewise: the index of the quote
get_random_quote(now) == Minute(now) % QuoteCount

\* round(n / d) of Python 3 for n >= 0: to the nearest integer, a half to
\* the even one
Round(n, d) ==
    LET q == n \div d
        r == n % d
    IN IF 2 * r < d THEN q
       ELSE IF 2 * r > d THEN q + 1
       ELSE IF q % 2 = 0 THEN q ELSE q + 1

\* glyph * n: a string of n glyphs, empty when n is not positive
Repeat(glyph, n) == [i \in 1..n |-> glyph]

\* get_progress_bar with a slip: int() of the quotient, without round()
get_progress_bar_truncating(percentage) ==
    LET filled == (BarLength * percentage.num) \div (100 * percentage.den)
        empty == BarLength - filled
    IN [filled |-> filled, empty |-> empty,
        bar |-> Repeat("full", filled) \o Repeat("light", empty)]

\* get_progress_bar(percentage): the bar, with the two counts it is made of
get_progress_bar(percentage) ==
    LET filled == Round(BarLength * percentage.num, 100 * percentage.den)
        empty == BarLength - filled
    IN [filled |-> filled, empty |-> empty,
        bar |-> Repeat("full", filled) \o Repeat("light", empty)]

\* format_12h_time(ist_time): hour, minute, second and period
format_12h_time(ist_time) ==
    LET hour == Hour(ist_time)
        hour_12 == IF hour = 0 THEN 12
                   ELSE IF hour < 12 THEN hour
                   ELSE IF hour = 12 THEN 12
                   ELSE hour - 12
        period == IF hour = 0 THEN "AM"
                  ELSE IF hour < 12 THEN "AM"
                  ELSE IF hour = 12 THEN "PM"
                  ELSE "PM"
    IN [hour_12 |-> hour_12, minute |-> Minute(ist_time),
        second |-> Second(ist_time), period |-> period]

\* the message of generate_progress_message, as the values its template
\* holds, from the results of the five calls and the instant now
Message(year_progress, day_progress, second_progress, month, quote, now) ==
    [year |-> now.year,
     year_bar |-> get_progress_bar(year_progress).bar, year_percent |-> year_progress,
     day_bar |-> get_progress_bar(day_progress).bar, day_percent |-> day_progress,
     second_bar |-> get_progress_bar(second_progress).bar,
     second_percent |-> second_progress,
     month_name |-> month.month_name, days_left |-> month.days_left,
     months_left |-> month.months_left,
     date |-> <<now.day, now.month, now.year>>,
     time_12h |-> format_12h_time(now), second |-> Second(now),
     quote |-> quote]

\* no call of the renderer is followed
NoCall == [pc |-> "off"]

\* the instant the clock shows while the handlers and the tasks are followed
Epoch == At(2024, 1, 1, 0)

\* ------------------------------------------------------------------ state
Idle == [cmd |-> "none", chat |-> 0, text |-> "none"]

Awaiting(cmd, c, text) == [cmd |-> cmd, chat |-> c, text |-> text]

\* A task: its arguments, where it is suspended, the sleep it is in, and
\* (history) the class of its last edit's outcome, whether the sleep it is in
\* follows a second outcome of that class in a row, and whether a /stop found
\* it running.
NewTask(c, m) ==
    [chat |-> c, message_id |-> m, pc |-> "created", delay |-> 0,
     last |-> "none", again |-> FALSE, stop_pending |-> FALSE]

TasksOf(c) == {t \in tasks : t.chat = c}

Editing(c) == {t \in tasks : t.chat = c /\ t.pc = "editing"}

\* the application as run_bot() builds it: no session, no task, no update
NoSession ==
    /\ chat_data = [c \in Chats |-> EmptyDict]
    /\ tasks = {}
    /\ update = Idle
    /\ message_seq = 0
    /\ history = [c \in Chats |-> "none"]

Init ==
    /\ NoSession
    /\ clock = Epoch
    /\ render = NoCall

\* ------------------------------------------------------------- /progress
\* the check with a slip: it reads a key that is never written
ProgressCheckWrongKey(d) == Get(d, "running", FALSE)

\* progress(), the check of the running flag
ProgressCheck(d) == Get(d, "is_running", FALSE)

\* progress() up to its first suspension: the check, and either the
\* "already running" reply or the send of the initial message.
ProgressCommand(c) ==
    /\ update = Idle
    /\ IF ProgressCheck(chat_data[c])
       THEN update' = Awaiting("progress", c, "already_running")
       ELSE /\ message_seq < MaxStarts
            /\ update' = Awaiting("progress", c, "initial")
    /\ history' = [history EXCEPT ![c] = IF @ = "stopped" THEN "none" ELSE @]
    /\ UNCHANGED <<chat_data, tasks, message_seq>>

\* progress() from the return of the initial reply_text to the next await:
\* store the message id, set the flag, create the task, send the info reply.
InitialSent ==
    /\ update.cmd = "progress" /\ update.text = "initial"
    /\ LET c == update.chat
           m == message_seq + 1
       IN /\ message_seq' = m
          /\ chat_data' = [chat_data EXCEPT
                 ![c] = Put(Put(@, "last_msg_id", m), "is_running", TRUE)]
          /\ tasks' = tasks \cup {NewTask(c, m)}
          /\ update' = Awaiting("progress", c, "started")
          /\ history' = [history EXCEPT ![c] = "started"]

\* progress() with a slip: the flag is set before the initial message is
\* sent, and stays set when the send raises
InitialFailsAfterFlag ==
    /\ update.cmd = "progress" /\ update.text = "initial"
    /\ update' = Idle
    /\ chat_data' = [chat_data EXCEPT ![update.chat] = Put(@, "is_running", TRUE)]
    /\ UNCHANGED <<tasks, message_seq, history>>

\* the initial reply_text raises: progress() ends there
InitialFails ==
    /\ update.cmd = "progress" /\ update.text = "initial"
    /\ update' = Idle
    /\ UNCHANGED <<chat_data, tasks, message_seq, history>>

\* ----------------------------------------------------------------- /stop
StopCheck(d) == Get(d, "is_running", FALSE)

\* stop() with a slip: the flag is written whether or not it was set
StopWritesAlways(d) == Put(d, "is_running", FALSE)

\* the chat's dictionary after stop()
StopWrites(d) == IF StopCheck(d) THEN Put(d, "is_running", FALSE) ELSE d

StopText(d) == IF StopCheck(d) THEN "stopped" ELSE "not_running"

\* stop() up to its reply
StopCommand(c) ==
    /\ update = Idle
    /\ chat_data' = [chat_data EXCEPT ![c] = StopWrites(@)]
    /\ update' = Awaiting("stop", c, StopText(chat_data[c]))
    /\ tasks' = {IF t.chat = c /\ StopCheck(chat_data[c])
                  THEN [t EXCEPT !.stop_pending = TRUE] ELSE t : t \in tasks}
    /\ history' = [history EXCEPT ![c] = "stopped"]
    /\ UNCHANGED message_seq

\* asyncio runs its ready callbacks first in, first out: the first step of a
\* task made by create_task is queued before the creating handler suspends,
\* so it runs before any reply or update that arrives later is handled.
NoFreshTask == \A t \in tasks : t.pc # "created"

\* a handler's last reply_text returns (or raises): the handler ends
ReplyReturns ==
    /\ update.cmd # "none" /\ update.text # "initial"
    /\ NoFreshTask
    /\ update' = Idle
    /\ UNCHANGED <<chat_data, tasks, message_seq, history>>

\* ------------------------------------------- update_message_continuously
WhileCondition(d) == Get(d, "is_running", FALSE)

\* the top of the while loop, reached by task t: leave the loop (the task
\* ends), or render and start the edit call
LoopTop(t) ==
    /\ tasks' = IF WhileCondition(chat_data[t.chat])
                THEN (tasks \ {t}) \cup
                     {[t EXCEPT !.pc = "editing", !.delay = 0, !.again = FALSE,
                                !.stop_pending = FALSE]}
                ELSE tasks \ {t}
    /\ UNCHANGED <<chat_data, update, message_seq, history>>

\* the task runs for the first time
TaskStarts(t) ==
    /\ t.pc = "created"
    /\ LoopTop(t)

\* asyncio.sleep returns: the timer wakes the task through the same queue,
\* behind the first step of a task that is already queued
SleepReturns(t) ==
    /\ t.pc = "sleeping"
    /\ NoFreshTask
    /\ LoopTop(t)

\* the loop with a slip: after a successful edit it goes round again
\* without sleeping
EditReturnsNoSleep(t) ==
    /\ t.pc = "editing"
    /\ tasks' = (tasks \ {t}) \cup {[t EXCEPT !.last = "ok", !.again = FALSE]}
    /\ UNCHANGED <<chat_data, update, message_seq, history>>

\* edit_message_text returns: sleep 5 seconds
EditReturns(t) ==
    /\ t.pc = "editing"
    /\ tasks' = (tasks \ {t}) \cup
          {[t EXCEPT !.pc = "sleeping", !.delay = EditInterval, !.last = "ok",
                     !.again = FALSE]}
    /\ UNCHANGED <<chat_data, update, message_seq, history>>

\* edit_message_text raises an exception with message e
EditRaises(t, e) ==
    /\ t.pc = "editing"
    /\ LET h == ExceptHandler(e)
       IN /\ chat_data' = IF h.clear
                          THEN [chat_data EXCEPT ![t.chat] = Put(@, "is_running", FALSE)]
                          ELSE chat_data
          /\ tasks' = IF h.break
                      THEN tasks \ {t}
                      ELSE (tasks \ {t}) \cup
                           {[t EXCEPT !.pc = "sleeping", !.delay = h.sleep,
                                      !.last = Kind(e), !.again = (t.last = Kind(e))]}
    /\ UNCHANGED <<update, message_seq, history>>

Next ==
    \/ \E c \in Chats : ProgressCommand(c) /\ UNCHANGED rvars
    \/ InitialSent /\ UNCHANGED rvars
    \/ InitialFails /\ UNCHANGED rvars
    \/ \E c \in Chats : StopCommand(c) /\ UNCHANGED rvars
    \/ ReplyReturns /\ UNCHANGED rvars
    \/ \E t \in tasks : TaskStarts(t) /\ UNCHANGED rvars
    \/ \E t \in tasks : SleepReturns(t) /\ UNCHANGED rvars
    \/ \E t \in tasks : EditReturns(t) /\ UNCHANGED rvars
    \/ \E t \in tasks, e \in ErrorMsgs : EditRaises(t, e) /\ UNCHANGED rvars

Spec == Init /\ [][Next]_vars

\* ------------------------------------------- generate_progress_message
\* One call of generate_progress_message, statement by statement, while the
\* clock runs: each of its six calls of get_ist_now() returns the instant
\* the clock shows when it is made.
StartInstants ==
    {At(2024, 12, 31, DayTicks - 1), At(2024, 2, 29, DayTicks - 1),
     At(2023, 2, 28, DayTicks - 1), At(2023, 11, 29, DayTicks - 1),
     At(2023, 11, 30, 0), At(2023, 6, 15, Tod(11, 59, 59, TicksPerSecond - 1)),
     At(2023, 6, 15, Tod(0, 59, 58, TicksPerSecond - 1)),
     At(2023, 6, 15, Tod(9, 29, 58, 0)), At(2023, 3, 10, Tod(17, 45, 30, 0))}

RenderInit ==
    /\ NoSession
    /\ clock \in StartInstants
    /\ render = [pc |-> "year", ticks |-> 0, reads |-> {}]

\* the clock moves on by one tick while the call is under way
ClockTick ==
    /\ render.pc \in {"year", "day", "second", "month", "quote", "now"}
    /\ render.ticks < MaxTicks
    /\ clock' = Advance(clock)
    /\ render' = [render EXCEPT !.ticks = @ + 1]
    /\ UNCHANGED bvars

\* a statement that binds a local to a value computed from a fresh reading
\* of the clock; reads (history) collects the readings
Bind(local, value, next) ==
    /\ render' = Put(Put(Put(render, local, value),
                         "reads", render.reads \cup {get_ist_now}), "pc", next)
    /\ UNCHANGED <<clock, bvars>>

ReadYear ==
    /\ render.pc = "year"
    /\ Bind("year_progress", get_year_progress(get_ist_now), "day")

ReadDay ==
    /\ render.pc = "day"
    /\ Bind("day_progress", get_day_progress(get_ist_now), "second")

ReadSecond ==
    /\ render.pc = "second"
    /\ Bind("second_progress", get_second_progress(get_ist_now), "month")

ReadMonth ==
    /\ render.pc = "month"
    /\ Bind("month", get_month_info(get_ist_now), "quote")

ReadQuote ==
    /\ render.pc = "quote"
    /\ Bind("quote", get_random_quote(get_ist_now), "now")

\* now = get_ist_now(), the bars, the formats and the template
Compose ==
    /\ render.pc = "now"
    /\ LET now == get_ist_now
       IN render' = [pc |-> "done", reads |-> render.reads \cup {now},
                     message |-> Message(render.year_progress, render.day_progress,
                                         render.second_progress, render.month,
                                         render.quote, now)]
    /\ UNCHANGED <<clock, bvars>>

RenderNext ==
    \/ ClockTick
    \/ ReadYear
    \/ ReadDay
    \/ ReadSecond
    \/ ReadMonth
    \/ ReadQuote
    \/ Compose

RenderSpec == RenderInit /\ [][RenderNext]_vars

\* the message generate_progress_message returns when all six readings of
\* the clock are the instant i
GenerateAt(i) ==
    Message(get_year_progress(i), get_day_progress(i), get_second_progress(i),
            get_month_info(i), get_random_quote(i), i)

\* ------------------------------------------- the functions, one call each
\* the instants tried: every day of a common year, of a leap year and of a
\* century year that is no leap year, at midnight, one tick later, one tick
\* before the next midnight, and at each second of one minute
SweepYears == {2023, 2024, 2100}

SweepTods ==
    {0, 1, DayTicks - 1} \cup {Tod(12, 30, s, 1) : s \in 0..59}

SweepInstants ==
    {At(y, m, d, t) : y \in SweepYears, m \in 1..12, d \in 1..31, t \in SweepTods}

\* the percentages tried: 0, 1/PctGrain, 2/PctGrain, ... 100
Percentages == {[num |-> k, den |-> PctGrain] : k \in 0..(100 * PctGrain)}

Call(fn) == [pc |-> "call", fn |-> fn]

Returned(fn) == render.pc = "returned" /\ render.fn = fn

FunctionInit ==
    /\ NoSession
    /\ \/ /\ clock \in {i \in SweepInstants : i.day <= DaysInMonth(i.year, i.month)}
          /\ render \in {Call("get_month_info"), Call("get_second_progress")}
       \/ /\ clock = Epoch
          /\ render \in {[pc |-> "call", fn |-> "get_progress_bar", percentage |-> p] :
                            p \in Percentages}

CallMonthInfo ==
    /\ render = Call("get_month_info")
    /\ render' = [pc |-> "returned", fn |-> render.fn, out |-> get_month_info(get_ist_now)]
    /\ UNCHANGED <<clock, bvars>>

CallSecondProgress ==
    /\ render = Call("get_second_progress")
    /\ render' = [pc |-> "returned", fn |-> render.fn,
                  out |-> get_second_progress(get_ist_now)]
    /\ UNCHANGED <<clock, bvars>>

CallProgressBar ==
    /\ render.pc = "call" /\ render.fn = "get_progress_bar"
    /\ render' = [pc |-> "returned", fn |-> render.fn, percentage |-> render.percentage,
                  out |-> get_progress_bar(render.percentage)]
    /\ UNCHANGED <<clock, bvars>>

FunctionNext ==
    \/ CallMonthInfo
    \/ CallSecondProgress
    \/ CallProgressBar

FunctionSpec == FunctionInit /\ [][FunctionNext]_vars

TypeOK ==
    /\ message_seq \in 0..MaxStarts
    /\ \A t \in tasks : /\ t.pc \in {"created", "editing", "sleeping"}
                        /\ t.message_id \in 1..message_seq
                        /\ t.chat \in Chats

\* ------------------------------------------------- vocabulary of the claims
\* the running flag of chat c, as every reader of it reads it
Running(c) == Get(chat_data[c], "is_running", FALSE)

\* the tasks this step changes or ends
Moved == tasks \ tasks'

\* in this step task t starts an edit call
Begins(t) ==
    /\ t \in Moved /\ t.pc # "editing"
    /\ \E u \in tasks' : u.message_id = t.message_id /\ u.pc = "editing"

\* in this step task t leaves its loop
Leaves(t) == t \in Moved /\ \A u \in tasks' : u.message_id # t.message_id

\* in this step the edit call of task t ends (it returns or raises)
EditEnds(t) == t \in Moved /\ t.pc = "editing"

\* task t after this step
After(t) == CHOOSE u \in tasks' : u.message_id = t.message_id

\* in this step a /progress (a /stop) command for chat c is taken up
StartTaken(c) == update = Idle /\ update'.cmd = "progress" /\ update'.chat = c

StopTaken(c) == update = Idle /\ update'.cmd = "stop" /\ update'.chat = c

\* this step leaves the session state and the tasks as they are
SessionUntouched == UNCHANGED <<chat_data, tasks, message_seq>>

\* ------------------------------------------------------------------ claims

\* C1: in every reachable state at most one live update_message_continuously
\* task exists per conversation.
C1_OneLiveTaskPerChat == \A c \in Chats : Cardinality(TasksOf(c)) <= 1

\* C2 (as claimed): a /progress taken up in a conversation where a /progress
\* launched a loop and no /stop was processed since replies "already running",
\* changes nothing, and leaves exactly one live loop.
C2_SecondStartRefused ==
    [][\A c \in Chats :
         (StartTaken(c) /\ history[c] = "started") =>
            /\ update'.text = "already_running"
            /\ SessionUntouched
            /\ Cardinality(TasksOf(c)) = 1]_vars

\* C2 (amended): a /progress taken up while the conversation's running flag is
\* true replies "already running" and takes no further action: neither that
\* step nor the end of the handler sends a progress message, changes the
\* stored message id or the running flag, or creates a task.
C2_StartWhileRunningIsNoOp ==
    [][/\ \A c \in Chats :
            (StartTaken(c) /\ Running(c)) =>
                update'.text = "already_running" /\ SessionUntouched
       /\ (update.text = "already_running" /\ update' # update) =>
                update' = Idle /\ SessionUntouched]_vars

C2_Witness ==
    \E c \in Chats :
        /\ update = Awaiting("progress", c, "already_running")
        /\ history[c] = "started" /\ Running(c) /\ TasksOf(c) # {}

\* C3: every task that was live when a /stop cleared the running flag leaves
\* its loop at its next loop-top check, whatever commands follow the stop.
C3_StoppedTaskExitsAtLoopTop ==
    [][\A t \in Moved :
         (t.stop_pending /\ t.pc \in {"created", "sleeping"}) => Leaves(t)]_vars

\* C4: after a /stop is processed for a conversation and while no /progress
\* has followed it, no edit call is begun and at most one edit call (the one
\* in flight when the flag was cleared) is still made for that conversation.
C4_AtMostOneEditAfterStop ==
    [][\A c \in Chats :
         (history[c] = "stopped" /\ history'[c] = "stopped") =>
            /\ \A t \in TasksOf(c) : ~Begins(t)
            /\ Cardinality(Editing(c)) <= 1]_vars

\* C5: an edit that raises a terminal error sets the running flag false and
\* ends the task at once (no sleep); while the flag is false no task of the
\* conversation begins an edit, and only progress(), on sending its initial
\* message, sets the flag again.
C5_TerminalErrorEndsSession ==
    [][/\ \A t \in Moved : EditEnds(t) => \A e \in ErrorMsgs :
            (Kind(e) = "terminal" /\ EditRaises(t, e)) =>
                ~Running(t.chat)' /\ Leaves(t)
       /\ \A t \in Moved : ~Running(t.chat) => ~Begins(t)
       /\ \A c \in Chats : (~Running(c) /\ Running(c)') =>
                update = Awaiting("progress", c, "initial")]_vars

\* a terminal error ended the session of a conversation: no /stop was
\* processed since its last start, and the flag is false
C5_Witness ==
    \E c \in Chats : history[c] = "started" /\ ~Running(c) /\ update = Idle

\* C6: an edit that raises a rate-limit error leaves the session state as it
\* is and puts the task into a 30 second sleep, also when the edit before it
\* was rate-limited too; the task's next edit begins only out of that sleep.
C6_FloodBacksOff30 ==
    [][/\ \A t \in Moved : EditEnds(t) => \A e \in ErrorMsgs :
            (Kind(e) = "flood" /\ EditRaises(t, e)) =>
                /\ chat_data' = chat_data
                /\ ~Leaves(t)
                /\ After(t).pc = "sleeping" /\ After(t).delay = 30
       /\ \A t \in Moved :
            (t.last = "flood" /\ Begins(t)) => t.pc = "sleeping" /\ t.delay = 30]_vars

C6_Witness ==
    \E t \in tasks :
        /\ t.last = "flood" /\ t.again
        /\ t.pc = "sleeping" /\ t.delay = 30
        /\ Running(t.chat)

\* C7: a task leaves its loop only at a loop-top check that reads the flag
\* false or on an edit that raised a terminal error; an unclassified error
\* puts it into a 10 second sleep and leaves the session state as it is,
\* however many came before.
C7_OnlyTwoExits ==
    [][/\ \A t \in Moved :
            Leaves(t) =>
                \/ t.pc \in {"created", "sleeping"} /\ ~Running(t.chat)
                \/ /\ t.pc = "editing"
                   /\ \E e \in ErrorMsgs : Kind(e) = "terminal" /\ EditRaises(t, e)
       /\ \A t \in Moved : EditEnds(t) => \A e \in ErrorMsgs :
            (Kind(e) = "other" /\ EditRaises(t, e)) =>
                /\ chat_data' = chat_data
                /\ ~Leaves(t)
                /\ After(t).pc = "sleeping" /\ After(t).delay = 10]_vars

C7_Witness ==
    \E t \in tasks :
        /\ t.last = "other" /\ t.again
        /\ t.pc = "sleeping" /\ t.delay = 10
        /\ Running(t.chat)

\* C8: a /stop taken up while the running flag is false or absent replies
\* "not running" and leaves the flag, the stored message id and the tasks
\* unchanged, up to the end of the handler.
C8_StopWhenNotRunningIsNoOp ==
    [][/\ \A c \in Chats :
            (StopTaken(c) /\ ~Running(c)) =>
                update'.text = "not_running" /\ SessionUntouched
       /\ (update.text = "not_running" /\ update' # update) =>
                update' = Idle /\ SessionUntouched]_vars

C8_Witness ==
    \E c \in Chats :
        /\ update = Awaiting("stop", c, "not_running")
        /\ TasksOf(c) # {}

\* C9: in no reachable state are two edit_message_text calls in flight for
\* the same conversation.
C9_EditsSequential == \A c \in Chats : Cardinality(Editing(c)) <= 1

\* C10: every edit attempt targets the message id stored as last_msg_id of
\* its conversation when the attempt begins.
C10_EditTargetsStoredId ==
    [][\A t \in Moved :
         Begins(t) => t.message_id = Get(chat_data[t.chat], "last_msg_id", 0)]_vars

\* a start handler for chat c is suspended in the send of its initial
\* message: it has made its check and not yet its writes
InWindow(c) == update = Awaiting("progress", c, "initial")

\* C11 (as stated): the check of the running flag and the write that sets it
\* form one step: no step of another coroutine runs while a start handler is
\* between its check and its write.
C11_CheckAndWriteOneStep ==
    [][\A c \in Chats : InWindow(c) => update' # update]_vars

\* C11 (amended): a start handler is suspended once, in the send of its
\* initial message, between its check and its writes, and tasks run
\* meanwhile; yet no step taken meanwhile changes that conversation's
\* dictionary or hands another command to a handler, so the flag is still
\* false when the handler writes it, and the handler's next step either
\* makes the writes or ends the handler.
C11_CheckStillValidAtWrite ==
    [][\A c \in Chats : InWindow(c) =>
          /\ ~Running(c)
          /\ update' # update => update' \in {Idle, Awaiting("progress", c, "started")}
          /\ update' = update => chat_data'[c] = chat_data[c]
          /\ update' = Awaiting("progress", c, "started") => Running(c)']_vars

\* the window is open while an edit call of a task of the same conversation
\* is in flight: the handler and the task are suspended side by side
C11_Witness ==
    \E c \in Chats : InWindow(c) /\ Editing(c) # {} /\ history[c] = "none"

\* the sleep the loop takes after an edit with outcome k
SleepAfter(k) ==
    CASE k = "ok" -> EditInterval
      [] k = "flood" -> FloodBackoff
      [] k = "other" -> ErrorBackoff

\* C12: a task never busy-waits: an edit call is begun either by the task's
\* first step or out of exactly one sleep, of 5 seconds after a success, 30
\* after a rate-limit error, 10 after an unclassified error; an edit call
\* that ends leads to a sleep or to the end of the task, and a sleep that
\* ends leads to an edit call or to the end of the task, never to a sleep.
C12_OneSleepBetweenEdits ==
    [][\A t \in Moved : update' = update =>
          /\ Begins(t) =>
                \/ t.pc = "created" /\ t.last = "none"
                \/ /\ t.pc = "sleeping" /\ t.last \in {"ok", "flood", "other"}
                   /\ t.delay = SleepAfter(t.last)
          /\ EditEnds(t) =>
                \/ Leaves(t)
                \/ /\ After(t).pc = "sleeping"
                   /\ After(t).last \in {"ok", "flood", "other"}
                   /\ After(t).delay = SleepAfter(After(t).last)
          /\ t.pc = "sleeping" =>
                Leaves(t) \/ After(t).pc = "editing"]_vars

\* edit calls in flight that were begun out of a 30 second sleep and out
\* of a 10 second sleep
C12_Witness ==
    /\ \E t \in tasks : t.pc = "editing" /\ t.last = "flood"
    /\ \E u \in tasks : u.pc = "editing" /\ u.last = "other"

\* the message id chat c tracks (0: none)
LastMsgId(c) == Get(chat_data[c], "last_msg_id", 0)

\* in this step task t, just created, makes its first check of the loop
\* condition
FirstCheck(t) == t \in Moved /\ t.pc = "created" /\ update' = update

\* C17: a start on an inactive conversation sends one new message, stores
\* its id, sets the flag and only then creates one task bound to that id; so
\* the flag is true when the new task makes its first check of the loop
\* condition, unless a stop came in between, and whenever the flag is true a
\* tracked message id is stored.
C17_StartEntryOrder ==
    [][/\ \A c \in Chats :
            (InWindow(c) /\ update' = Awaiting("progress", c, "started")) =>
                /\ message_seq' = message_seq + 1
                /\ LastMsgId(c)' = message_seq' /\ Running(c)'
                /\ tasks' = tasks \cup {NewTask(c, message_seq')}
                /\ NewTask(c, message_seq') \notin tasks
       /\ \A t \in Moved :
            (FirstCheck(t) /\ history[t.chat] # "stopped") => Running(t.chat)
       /\ \A c \in Chats : Running(c)' => LastMsgId(c)' # 0]_vars

\* task t belongs to a session that a later start has replaced
Stale(t) == t.message_id # LastMsgId(t.chat)

\* C18: a task's terminal failure ends only its own session: an edit call of
\* a task that a later start has replaced never changes the running flag
\* when it ends.
C18_StaleTaskLeavesNewSession ==
    [][\A t \in Moved :
          (EditEnds(t) /\ update' = update /\ Stale(t)) =>
              Running(t.chat)' = Running(t.chat)]_vars

\* C19: when the send of the initial message fails, the session is as it was:
\* the flag stays false, no message id is stored, no task is created, and a
\* later start passes the check again.
C19_FailedSendLeavesSession ==
    [][\A c \in Chats : (InWindow(c) /\ update' = Idle) =>
          /\ SessionUntouched
          /\ ~Running(c)' /\ ~ProgressCheck(chat_data'[c])
          /\ Cardinality(tasks') = Cardinality(tasks)]_vars

\* a start taken after a stop has ended in a failed send: the handler is
\* gone, the flag is still the false that the stop wrote
C19_Witness ==
    \E c \in Chats : /\ update = Idle /\ history[c] = "none"
                     /\ "is_running" \in DOMAIN chat_data[c] /\ ~Running(c)

\* C13: every time-dependent field of one message is computed from one
\* captured instant: the message is the one a single reading of the clock
\* gives.
C13_SingleCapture ==
    render.pc = "done" => \E i \in render.reads : render.message = GenerateAt(i)

\* the last day of the month of instant i
LastDay(i) == i.day = DaysInMonth(i.year, i.month)

\* the ticks from instant i to the first instant of the next month
UntilNextMonth(i) == (DaysInMonth(i.year, i.month) - i.day + 1) * DayTicks - i.tod

\* the days remaining are the whole days until the first of the next month
WholeDaysLeft(i, n) ==
    n * DayTicks <= UntilNextMonth(i) /\ UntilNextMonth(i) < (n + 1) * DayTicks

\* C14 (as stated): months remaining is 12 minus the month, less one exactly
\* when the day is the last day of the month, at every instant of that day,
\* midnight included; days remaining is the whole days until the first of
\* the next month.
C14_DecrementOnLastDay ==
    Returned("get_month_info") =>
        /\ render.out.months_left =
               12 - clock.month - (IF LastDay(clock) THEN 1 ELSE 0)
        /\ WholeDaysLeft(clock, render.out.days_left)

\* C14 (amended): months remaining is 12 minus the month, less one exactly
\* when less than one whole day is left of the month, that is at every
\* instant of the last day but its midnight 00:00:00.000000, where days
\* remaining is 1 and nothing is taken off; days remaining is the whole days
\* until the first of the next month.
C14_DecrementWhenNoWholeDayLeft ==
    Returned("get_month_info") =>
        /\ render.out.months_left =
               12 - clock.month - (IF LastDay(clock) /\ clock.tod > 0 THEN 1 ELSE 0)
        /\ WholeDaysLeft(clock, render.out.days_left)
        /\ render.out.month_name = clock.month

\* the function has returned for the midnight that begins a last day
C14_Witness ==
    /\ Returned("get_month_info") /\ LastDay(clock) /\ clock.tod = 0
    /\ render.out.days_left = 1 /\ render.out.months_left = 12 - clock.month

\* C15: for a second s of 0..59 the tick fraction is min(100, s/59*100): it
\* is within 0..100, is 0 at s = 0 and 100 at s = 59, and is greater than
\* the fraction of every smaller second.
C15_TickFraction ==
    Returned("get_second_progress") =>
        LET s == Second(clock)
            out == render.out
        IN /\ s \in 0..59 /\ out.den > 0
           /\ out.num * 59 = (IF s * 100 > 59 * 100 THEN 59 * 100 ELSE s * 100) * out.den
           /\ 0 <= out.num /\ out.num <= 100 * out.den
           /\ s = 0 => out.num = 0
           /\ s = 59 => out.num = 100 * out.den
           /\ \A r \in 0..59 : r < s =>
                 Less(get_second_progress(
                          [clock EXCEPT !.tod = Tod(Hour(clock), Minute(clock), r, 0)]),
                      out)

\* the function has returned for a second 59
C15_Witness ==
    /\ Returned("get_second_progress") /\ Second(clock) = 59
    /\ render.out.num = 100 * render.out.den

\* C16: for a percentage of 0..100 the filled count is 20*percentage/100
\* rounded to a nearest integer and lies in 0..20, the empty count is 20
\* less the filled count, and the bar is 20 glyphs, the filled ones first.
C16_BarOfTwenty ==
    Returned("get_progress_bar") =>
        LET p == render.percentage
            out == render.out
            twice == 2 * (20 * p.num - out.filled * 100 * p.den)
        IN /\ out.filled \in 0..20
           /\ out.empty = 20 - out.filled
           /\ -(100 * p.den) <= twice /\ twice <= 100 * p.den
           /\ Len(out.bar) = 20
           /\ \A i \in 1..20 : out.bar[i] = IF i <= out.filled THEN "full" ELSE "light"

\* the function has returned for a percentage whose twentieths end in a half
C16_Witness ==
    /\ Returned("get_progress_bar")
    /\ 2 * ((20 * render.percentage.num) % (100 * render.percentage.den))
          = 100 * render.percentage.den
    /\ render.out.filled = 12

\* C20: months remaining is within 0..11 and days remaining is not negative
\* at any instant; months remaining is never negative in December.
C20_MonthInfoInRange ==
    Returned("get_month_info") =>
        render.out.months_left \in 0..11 /\ render.out.days_left >= 0
====
